---------------------------- MODULE Spec2Model ----------------------------
(***************************************************************************)
(* Hooks of claude-prompts-plugin: the chain/gate protocol, plan review.   *)
(*                                                                         *)
(*   gate-enforce.py        PreToolUse hook: the enforcement gate          *)
(*   post-prompt-engine.py  PostToolUse hook: parse, store, remind         *)
(*   lib/session_state.py   the per-session state store and the parser     *)
(*   plan-review.py         PreToolUse hook: one reflection per session    *)
(*                                                                         *)
(* Text is modelled at the character level: a Python str is a sequence of  *)
(* one-character strings, so that the regular expressions of the source    *)
(* are matched as the source matches them.  Python and JSON values are     *)
(* tagged records, so that a payload or a stored record of the wrong type  *)
(* behaves as it does in Python (truthiness, .get, TypeError ...).         *)
(***************************************************************************)
EXTENDS Naturals, Sequences, FiniteSets, TLC

VARIABLES
    files,   \* the session-state directory: file name -> what is on disk
    out,     \* the last process step: what it was given and how it ended
    saving,  \* per file, the save_session_state that has opened it and not
             \* yet closed it
    plan     \* plan-review.py: the marker files, and per session the processes
             \* that have looked for the marker and not yet made it

vars == <<files, out, saving, plan>>

---------------------------------------------------------------------------
(* Characters and strings                                                  *)

\* Python's \s and str.strip() on ASCII text (\v is left out: TLA+ has no
\* escape for it).
WhiteSpace ==
    {" ", "\t", "\n", "\r", "\f"}

UpperAlpha ==
    <<"A","B","C","D","E","F","G","H","I","J","K","L","M",
      "N","O","P","Q","R","S","T","U","V","W","X","Y","Z">>

LowerAlpha ==
    <<"a","b","c","d","e","f","g","h","i","j","k","l","m",
      "n","o","p","q","r","s","t","u","v","w","x","y","z">>

DigitChars ==
    <<"0","1","2","3","4","5","6","7","8","9">>

\* U+2022, the bullet character of the criteria pattern.
BULLET ==
    "U+2022"

IsSpace(c) ==
    c \in WhiteSpace

IsDigit(c) ==
    \E i \in 1..10 : DigitChars[i] = c

IsUpper(c) ==
    \E i \in 1..26 : UpperAlpha[i] = c

IsLower(c) ==
    \E i \in 1..26 : LowerAlpha[i] = c

IsAlpha(c) ==
    IsUpper(c) \/ IsLower(c)

\* re.IGNORECASE compares characters after case folding.
Lower(c) ==
    IF IsUpper(c) THEN LowerAlpha[CHOOSE i \in 1..26 : UpperAlpha[i] = c] ELSE c

\* The literal lit occurs in s at position i.
MatchAt(s, i, lit) ==
    /\ i >= 1
    /\ i + Len(lit) - 1 <= Len(s)
    /\ \A k \in 1..Len(lit) : s[i + k - 1] = lit[k]

\* The same, ignoring case.
MatchAtCI(s, i, lit) ==
    /\ i >= 1
    /\ i + Len(lit) - 1 <= Len(s)
    /\ \A k \in 1..Len(lit) : Lower(s[i + k - 1]) = Lower(lit[k])

\* Python's  lit in s  for two strings.
IsSubstring(lit, s) ==
    \E i \in 1..(Len(s) + 1) : MatchAt(s, i, lit)

\* The position after a greedy run of whitespace starting at i (\s*).
SkipSpace(s, i) ==
    CHOOSE j \in i..(Len(s) + 1) :
        /\ j = Len(s) + 1 \/ ~IsSpace(s[j])
        /\ \A k \in i..(j - 1) : IsSpace(s[k])

\* The position of the first "\n" at or after i, Len(s)+1 when there is none:
\* where a run of  .  stops.
LineEnd(s, i) ==
    CHOOSE j \in i..(Len(s) + 1) :
        /\ j = Len(s) + 1 \/ s[j] = "\n"
        /\ \A k \in i..(j - 1) : s[k] # "\n"

\* str.strip()
Strip(s) ==
    LET keep == {i \in 1..Len(s) : ~IsSpace(s[i])}
    IN  IF keep = {} THEN <<>>
        ELSE SubSeq(s, CHOOSE i \in keep : \A k \in keep : i <= k,
                       CHOOSE j \in keep : \A k \in keep : k <= j)

---------------------------------------------------------------------------
(* Python values, as json.load produces them and as the hooks test them    *)

PyNone ==
    [t |-> "NoneType"]

PyStr(s) ==
    [t |-> "str", v |-> s]

PyInt(n) ==
    [t |-> "int", v |-> n]

PyList(items) ==
    [t |-> "list", v |-> items]

\* A dict is a function from its keys (TLA+ strings) to values.
PyDict(f) ==
    [t |-> "dict", v |-> f]

EmptyStr ==
    PyStr(<<>>)

EmptyDict ==
    PyDict(<<>>)

\* bool(v): what  if v:  and  not v  test.
Truthy(v) ==
    CASE v.t = "NoneType" -> FALSE
      [] v.t = "str"      -> Len(v.v) > 0
      [] v.t = "int"      -> v.v # 0
      [] v.t = "list"     -> Len(v.v) > 0
      [] v.t = "dict"     -> DOMAIN v.v # {}

\* Only a dict has .get; on anything else the call raises AttributeError.
HasGet(v) ==
    v.t = "dict"

\* d.get(key, default)
Get(d, key, default) ==
    IF key \in DOMAIN d.v THEN d.v[key] ELSE default

RECURSIVE Decimal(_)
\* str(n) of a non-negative int.
Decimal(n) ==
    IF n < 10 THEN <<DigitChars[n + 1]>>
    ELSE Decimal(n \div 10) \o <<DigitChars[(n % 10) + 1]>>

\* f"{v}" for the scalar values a stored field can hold.
Format(v) ==
    CASE v.t = "str"      -> v.v
      [] v.t = "int"      -> Decimal(v.v)
      [] v.t = "NoneType" -> <<"N","o","n","e">>

---------------------------------------------------------------------------
(* The texts the model is run on: tool names, verdicts, tool responses     *)

ToolPromptEngine ==
    <<"m","c","p","_","_","c","l","a","u","d","e","-","p","r","o","m","p","t","s","-","m","c",
      "p","_","_","p","r","o","m","p","t","_","e","n","g","i","n","e">>

ToolBash ==
    <<"B","a","s","h">>

VerdictFailMissingTests ==
    <<"G","A","T","E","_","R","E","V","I","E","W",":"," ","F","A","I","L"," ","-"," ","m","i",
      "s","s","i","n","g"," ","t","e","s","t","s">>

VerdictPassAllChecks ==
    <<"G","A","T","E","_","R","E","V","I","E","W",":"," ","P","A","S","S"," ","-"," ","a","l",
      "l"," ","c","h","e","c","k","s"," ","d","o","n","e">>

VerdictFailLowerBare ==
    <<"g","a","t","e","_","r","e","v","i","e","w",":","f","a","i","l">>

VerdictFailColon ==
    <<"G","A","T","E","_","R","E","V","I","E","W",":"," ","F","A","I","L",":"," ","f","l","a",
      "k","y">>

VerdictPassQuotingFail ==
    <<"G","A","T","E","_","R","E","V","I","E","W",":"," ","P","A","S","S"," ","-"," ","w","a",
      "s"," ","G","A","T","E","_","R","E","V","I","E","W",":"," ","F","A","I","L">>

VerdictFailBlankReason ==
    <<"G","A","T","E","_","R","E","V","I","E","W",":"," ","F","A","I","L"," ","-"," ">>

VerdictUntagged ==
    <<"F","A","I","L"," ","-"," ","n","o"," ","t","a","g">>

UserResponseDone ==
    <<"d","o","n","e">>

RespStep2of5 ==
    <<"S","t","e","p"," ","2"," ","o","f"," ","5">>

RespGateSecurity ==
    <<"#","#"," ","I","n","l","i","n","e"," ","G","a","t","e","s","\n","#","#","#"," ","S","e",
      "c","u","r","i","t","y"," ","R","e","v","i","e","w","\n","-"," ","N","o"," ","s","e","c",
      "r","e","t","s","\n","-"," ","I","n","p","u","t","s"," ","v","a","l","i","d","a","t","e",
      "d","\n">>

RespStepAndGate ==
    <<"S","t","e","p"," ","1"," ","o","f"," ","3"," ","c","h","a","i","n","-","c","1","\n",
      "#","#"," ","I","n","l","i","n","e"," ","G","a","t","e","s","\n","#","#","#"," ","C","o",
      "d","e"," ","Q","u","a","l","i","t","y","\n","-"," ","T","e","s","t","s"," ","p","a","s",
      "s","\n">>

RespFinalStep ==
    <<"S","t","e","p"," ","3"," ","o","f"," ","3">>

RespPlain ==
    <<"A","l","l"," ","d","o","n","e",".">>

RespGateNoHeading ==
    <<"G","a","t","e"," ","p","a","s","s","e","d"," ","-"," ","t","h","a","n","k","s">>

ToolNames ==
    {ToolPromptEngine, ToolBash}

Verdicts ==
    {VerdictFailMissingTests, VerdictPassAllChecks, VerdictFailLowerBare, VerdictFailColon,
     VerdictPassQuotingFail, VerdictFailBlankReason, VerdictUntagged}

Responses ==
    {RespStep2of5, RespGateSecurity, RespStepAndGate, RespFinalStep, RespPlain,
     RespGateNoHeading}

\* Responses written from parts, each part a line of its own or missing:
\* a step marker, a chain identifier, a gate header (or a sentence with the
\* word "Gate"), a heading, and a list of `bullets` bullet lines.
ResponseParts ==
    [ step    : { <<>>, <<"S","t","e","p"," ","2"," ","o","f"," ","5","\n">>,
                  <<"S","t","e","p"," ","7"," ","o","f"," ","5","\n">> },
      chain   : { <<>>, <<"c","h","a","i","n","-","a","b","c","\n">> },
      header  : { <<>>, <<"#","#"," ","I","n","l","i","n","e"," ","G","a","t","e","s","\n">>,
                  <<"G","a","t","e"," ","c","h","e","c","k","\n">> },
      heading : { <<>>, <<"#","#","#"," ","S","e","c","u","r","i","t","y"," ","R","e","v","i",
                    "e","w","\n">> },
      bullets : {0, 7} ]

RECURSIVE BulletLines(_)
\* "- item 1\n- item 2\n ... - item n\n"
BulletLines(n) ==
    IF n = 0 THEN <<>>
    ELSE BulletLines(n - 1) \o <<"-"," ","i","t","e","m"," ">> \o Decimal(n) \o <<"\n">>

PartsText(t) ==
    t.step \o t.chain \o t.header \o t.heading \o BulletLines(t.bullets)

PartsTexts ==
    {PartsText(t) : t \in ResponseParts}

\* The pure text functions below cost many steps to evaluate.  Each is tabled
\* once over the texts above; Tabled(table, x, F) is F(x), read from the table
\* when x is one of these texts.
Tabled(table, x, F(_)) ==
    IF x \in DOMAIN table THEN table[x] ELSE F(x)

---------------------------------------------------------------------------
(* lib/session_state.py: the state store                                   *)

JNull ==
    [j |-> "null"]

JString(s) ==
    [j |-> "string", s |-> s]

JNumber(n) ==
    [j |-> "number", n |-> n]

JArray(items) ==
    [j |-> "array", items |-> items]

JObject(members) ==
    [j |-> "object", members |-> members]

RECURSIVE JsonDump(_)
\* json.dump: the JSON document written for a Python value.
JsonDump(v) ==
    CASE v.t = "NoneType" -> JNull
      [] v.t = "str"      -> JString(v.v)
      [] v.t = "int"      -> JNumber(v.v)
      [] v.t = "list"     -> JArray([i \in 1..Len(v.v) |-> JsonDump(v.v[i])])
      [] v.t = "dict"     -> JObject([k \in DOMAIN v.v |-> JsonDump(v.v[k])])

RECURSIVE JsonLoad(_)
\* json.load: the Python value read from a JSON document.
JsonLoad(d) ==
    CASE d.j = "null"   -> PyNone
      [] d.j = "string" -> PyStr(d.s)
      [] d.j = "number" -> PyInt(d.n)
      [] d.j = "array"  -> PyList([i \in 1..Len(d.items) |-> JsonLoad(d.items[i])])
      [] d.j = "object" -> PyDict([k \in DOMAIN d.members |-> JsonLoad(d.members[k])])

\* What is on disk at SESSION_STATE_DIR/<session_id>.json:
\*   absent    no such file
\*   json      a file holding the JSON document doc
\*   garbage   a file whose text is no JSON document (json.JSONDecodeError)
\*   noaccess  a file that cannot be opened (PermissionError, an IOError)
\*   badutf8   a file whose bytes are no UTF-8 text (UnicodeDecodeError)
NoFile ==
    [k |-> "absent", doc |-> JNull]

JsonFile(doc) ==
    [k |-> "json", doc |-> doc]

GarbageFile ==
    [k |-> "garbage", doc |-> JNull]

NoAccessFile ==
    [k |-> "noaccess", doc |-> JNull]

BadUtf8File ==
    [k |-> "badutf8", doc |-> JNull]

\* The sessions directory itself is one more entry of the directory map:
\*   dir    it exists, or SESSION_STATE_DIR.mkdir(parents=True, exist_ok=True)
\*          can make it
\*   nodir  it does not exist and mkdir raises PermissionError (the cache
\*          directory is read-only)
SESSION_STATE_DIR ==
    <<".">>

DirNode ==
    [k |-> "dir", doc |-> JNull]

NoDirNode ==
    [k |-> "nodir", doc |-> JNull]

\* What a call gives back: the value returned, or the exception it raises.
Returned(v) ==
    [raised |-> "", value |-> v]

Raised(e) ==
    [raised |-> e, value |-> PyNone]

\* SESSION_STATE_DIR / f"{session_id}.json"  as pathlib builds it: a leading
\* "./" of the second operand is dropped, so "./s1" and "s1" name one file.
PathName(session_id) ==
    IF Len(session_id) > 2 /\ MatchAt(session_id, 1, <<".", "/">>)
    THEN SubSeq(session_id, 3, Len(session_id))
    ELSE session_id

\* get_session_state_path(session_id): the mkdir, then the file's name.
get_session_state_path(fs, session_id) ==
    IF fs[SESSION_STATE_DIR].k = "nodir"
    THEN [raised |-> "PermissionError", value |-> <<>>]
    ELSE [raised |-> "", value |-> PathName(session_id)]

\* load_session_state(session_id), reading the directory fs.  A file that an
\* unfinished save has truncated holds no JSON document ("garbage").
load_session_state(fs, session_id) ==
    LET state_path == get_session_state_path(fs, session_id)
        f          == fs[state_path.value]
    IN  IF state_path.raised # "" THEN Raised(state_path.raised)
        ELSE CASE f.k = "absent"   -> Returned(PyNone)
               [] f.k = "noaccess" -> Returned(PyNone)
               [] f.k = "garbage"  -> Returned(PyNone)
               [] f.k = "badutf8"  -> Raised("UnicodeDecodeError")
               [] f.k = "json"     -> Returned(JsonLoad(f.doc))

\* open(state_path, "w"): the file exists and is empty from here on.
OpenTruncate(fs, state_path) ==
    [fs EXCEPT ![state_path] = GarbageFile]

\* json.dump(state, f, indent=2) and the end of the with block: the whole
\* document is in the file.
DumpAndClose(fs, state_path, state) ==
    [fs EXCEPT ![state_path] = JsonFile(JsonDump(state))]

\* The exception save_session_state(session_id, ..) raises, "" when it returns.
save_raises(fs, session_id) ==
    get_session_state_path(fs, session_id).raised

\* open(state_path, "w") raises IOError, which save_session_state swallows.
OpenFails(fs, state_path) ==
    fs[state_path].k = "noaccess"

\* A store that merges: the members the new state leaves empty keep the value
\* the stored record has for them.
save_session_state_merge(fs, session_id, state) ==
    LET old    == load_session_state(fs, session_id).value
        merged == IF old.t # "dict" THEN state
                  ELSE PyDict([k \in DOMAIN state.v |->
                                 IF ~Truthy(state.v[k]) /\ k \in DOMAIN old.v
                                 THEN old.v[k] ELSE state.v[k]])
        state_path == get_session_state_path(fs, session_id)
    IN  IF state_path.raised # "" \/ OpenFails(fs, state_path.value) THEN fs
        ELSE [fs EXCEPT ![state_path.value] = JsonFile(JsonDump(merged))]

\* A store that appends: the new gate_criteria are added to those on file.
save_session_state_appends(fs, session_id, state) ==
    LET old        == load_session_state(fs, session_id).value
        kept       == IF old.t = "dict" /\ "gate_criteria" \in DOMAIN old.v
                      THEN old.v.gate_criteria.v ELSE <<>>
        appended   == PyDict([state.v EXCEPT
                                 !.gate_criteria = PyList(kept \o state.v.gate_criteria.v)])
        state_path == get_session_state_path(fs, session_id)
    IN  IF state_path.raised # "" \/ OpenFails(fs, state_path.value) THEN fs
        ELSE [fs EXCEPT ![state_path.value] = JsonFile(JsonDump(appended))]

\* save_session_state(session_id, state): the directory afterwards.  open(.., "w")
\* on a file that cannot be opened raises IOError, which is swallowed.
save_session_state(fs, session_id, state) ==
    LET state_path == get_session_state_path(fs, session_id)
    IN  IF state_path.raised # "" \/ OpenFails(fs, state_path.value) THEN fs
        ELSE DumpAndClose(OpenTruncate(fs, state_path.value), state_path.value, state)

\* A clear that forgets the unlink.
clear_session_state_keeps(fs, session_id) ==
    fs

\* clear_session_state(session_id): the directory afterwards.
clear_session_state(fs, session_id) ==
    LET state_path == get_session_state_path(fs, session_id)
    IN  IF state_path.raised = "" /\ fs[state_path.value].k # "absent"
        THEN [fs EXCEPT ![state_path.value] = NoFile]
        ELSE fs

---------------------------------------------------------------------------
(* lib/session_state.py: parse_prompt_engine_response                      *)

\* The gate_criteria cap:  criteria[:5]
MaxCriteria ==
    5

RECURSIVE ToInt(_)
\* int() of a run of decimal digits.
ToInt(ds) ==
    IF ds = <<>> THEN 0
    ELSE 10 * ToInt(SubSeq(ds, 1, Len(ds) - 1))
         + ((CHOOSE i \in 1..10 : DigitChars[i] = ds[Len(ds)]) - 1)

\* The position after a greedy run of digits starting at i (\d*).
SkipDigits(s, i) ==
    CHOOSE j \in i..(Len(s) + 1) :
        /\ j = Len(s) + 1 \/ ~IsDigit(s[j])
        /\ \A k \in i..(j - 1) : IsDigit(s[k])

\* [a-zA-Z0-9_-]
IsTokenChar(c) ==
    IsAlpha(c) \/ IsDigit(c) \/ c \in {"_", "-"}

\* [A-Za-z0-9 _-]
IsNameChar(c) ==
    IsAlpha(c) \/ IsDigit(c) \/ c \in {" ", "_", "-"}

SkipToken(s, i) ==
    CHOOSE j \in i..(Len(s) + 1) :
        /\ j = Len(s) + 1 \/ ~IsTokenChar(s[j])
        /\ \A k \in i..(j - 1) : IsTokenChar(s[k])

SkipName(s, i) ==
    CHOOSE j \in i..(Len(s) + 1) :
        /\ j = Len(s) + 1 \/ ~IsNameChar(s[j])
        /\ \A k \in i..(j - 1) : IsNameChar(s[k])

NoMatch ==
    [ok |-> FALSE]

\* The leading word in any case, as re.IGNORECASE would take it.
StepWords_AnyCase ==
    { <<"S","t","e","p">>, <<"s","t","e","p">>, <<"S","T","E","P">>,
      <<"P","r","o","g","r","e","s","s">>, <<"p","r","o","g","r","e","s","s">>,
      <<"P","R","O","G","R","E","S","S">> }

\* (?:[Ss]tep|[Pp]rogress)
StepWords ==
    { <<"S","t","e","p">>, <<"s","t","e","p">>,
      <<"P","r","o","g","r","e","s","s">>, <<"p","r","o","g","r","e","s","s">> }

\* (?:of|/)
StepSeparators ==
    { <<"o","f">>, <<"/">> }

\* (?:[Ss]tep|[Pp]rogress)\s+(\d+)\s*(?:of|/)\s*(\d+)  matched at position i.
StepMatchAt(s, i) ==
    IF ~\E w \in StepWords : MatchAt(s, i, w) THEN NoMatch
    ELSE
    LET w  == CHOOSE x \in StepWords : MatchAt(s, i, x)
        p1 == i + Len(w)
        p2 == SkipSpace(s, p1)
        p3 == SkipDigits(s, p2)
        p4 == SkipSpace(s, p3)
    IN  IF p1 > Len(s) \/ p2 = p1 \/ p3 = p2 THEN NoMatch
        ELSE IF ~\E sep \in StepSeparators : MatchAt(s, p4, sep) THEN NoMatch
        ELSE
        LET sep == CHOOSE x \in StepSeparators : MatchAt(s, p4, x)
            p5  == SkipSpace(s, p4 + Len(sep))
            p6  == SkipDigits(s, p5)
        IN  IF p6 = p5 THEN NoMatch
            ELSE [ok |-> TRUE,
                  current |-> ToInt(SubSeq(s, p2, p3 - 1)),
                  total   |-> ToInt(SubSeq(s, p5, p6 - 1))]

\* re.search: the leftmost position at which M matches, 0 when there is none.
FirstMatch(s, M(_)) ==
    IF \E i \in 1..Len(s) : M(i)
    THEN CHOOSE i \in 1..Len(s) : M(i) /\ \A k \in 1..(i - 1) : ~M(k)
    ELSE 0

\* chain[-_]([a-zA-Z0-9_-]+)  matched at position i.
ChainMatchAt(s, i) ==
    /\ MatchAt(s, i, <<"c","h","a","i","n">>)
    /\ i + 6 <= Len(s)
    /\ s[i + 5] \in {"-", "_"}
    /\ IsTokenChar(s[i + 6])

\* ###\s*([A-Za-z][A-Za-z0-9 _-]+)\n  matched at position i.
GateNameMatchAt(s, i) ==
    /\ MatchAt(s, i, <<"#","#","#">>)
    /\ LET p == SkipSpace(s, i + 3)
           q == SkipName(s, p + 1)
       IN  /\ p <= Len(s)
           /\ IsAlpha(s[p])
           /\ q > p + 1
           /\ q <= Len(s)
           /\ s[q] = "\n"

\* The group of the gate-name match at position i.
GateNameAt(s, i) ==
    LET p == SkipSpace(s, i + 3)
    IN  SubSeq(s, p, SkipName(s, p + 1) - 1)

\* Where the group of  \s*(.+)  or  \s*(.+?)  starts when the \s* starts at k,
\* 0 when the pattern cannot match there.  \s* is greedy; when it runs to the
\* end of the text it gives characters back until  .  can match one that is
\* no line break.
DotStart(s, k) ==
    LET g    == SkipSpace(s, k)
        back == {p \in k..Len(s) : s[p] # "\n"}
    IN  IF g <= Len(s) THEN g
        ELSE IF back = {} THEN 0
        ELSE CHOOSE p \in back : \A r \in back : r <= p

\* [-*]\s*(.+?)(?:\n|$)  matched at position i (the class is dash or bullet).
CriterionMatchAt(s, i) ==
    IF ~(i <= Len(s) /\ s[i] \in {"-", BULLET}) THEN NoMatch
    ELSE
    LET start == DotStart(s, i + 1)
    IN  IF start = 0 THEN NoMatch
        ELSE LET e == LineEnd(s, start)
             IN  [ok |-> TRUE,
                  group |-> SubSeq(s, start, e - 1),
                  next  |-> IF e <= Len(s) THEN e + 1 ELSE e]

RECURSIVE FindCriteria(_, _, _)
\* re.findall of the criteria pattern from position i on, the first n matches.
FindCriteria(s, i, n) ==
    IF n = 0 \/ i > Len(s) THEN <<>>
    ELSE LET m == CriterionMatchAt(s, i)
         IN  IF m.ok THEN <<m.group>> \o FindCriteria(s, m.next, n - 1)
             ELSE FindCriteria(s, i + 1, n)

\* [c.strip() for c in criteria[:5] if c.strip()]
GateCriteria(s) ==
    LET raw == FindCriteria(s, 1, MaxCriteria)
    IN  SelectSeq([i \in 1..Len(raw) |-> PyStr(Strip(raw[i]))],
                  LAMBDA c : Len(c.v) > 0)

\* Gate names and criteria looked for in every response.
HasGateContent_Always(s) ==
    Len(s) >= 0

\* "## Inline Gates" in content or "Gate" in content
HasGateContent(s) ==
    \/ IsSubstring(<<"#","#"," ","I","n","l","i","n","e"," ","G","a","t","e","s">>, s)
    \/ IsSubstring(<<"G","a","t","e">>, s)

\* The parser returning a state for a chain identifier alone.
parse_prompt_engine_response_chain_alone(content) ==
    LET si    == FirstMatch(content, LAMBDA i : StepMatchAt(content, i).ok)
        ci    == FirstMatch(content, LAMBDA i : ChainMatchAt(content, i))
        gi    == FirstMatch(content, LAMBDA i : GateNameMatchAt(content, i))
        gated == HasGateContent(content)
        state == PyDict([
            chain_id       |-> IF ci = 0 THEN EmptyStr
                               ELSE PyStr(SubSeq(content, ci + 6, SkipToken(content, ci + 6) - 1)),
            current_step   |-> PyInt(IF si = 0 THEN 0 ELSE StepMatchAt(content, si).current),
            total_steps    |-> PyInt(IF si = 0 THEN 0 ELSE StepMatchAt(content, si).total),
            pending_gate   |-> IF gated /\ gi # 0 THEN PyStr(Strip(GateNameAt(content, gi)))
                               ELSE PyNone,
            gate_criteria  |-> IF gated THEN PyList(GateCriteria(content)) ELSE PyList(<<>>),
            last_prompt_id |-> EmptyStr ])
    IN  IF \/ state.v.current_step.v > 0
           \/ Truthy(state.v.pending_gate)
           \/ Truthy(state.v.chain_id)
        THEN state
        ELSE PyNone

\* parse_prompt_engine_response(content) for a str: the state dict, or None.
parse_prompt_engine_response(content) ==
    LET si    == FirstMatch(content, LAMBDA i : StepMatchAt(content, i).ok)
        ci    == FirstMatch(content, LAMBDA i : ChainMatchAt(content, i))
        gi    == FirstMatch(content, LAMBDA i : GateNameMatchAt(content, i))
        gated == HasGateContent(content)
        state == PyDict([
            chain_id       |-> IF ci = 0 THEN EmptyStr
                               ELSE PyStr(SubSeq(content, ci + 6, SkipToken(content, ci + 6) - 1)),
            current_step   |-> PyInt(IF si = 0 THEN 0 ELSE StepMatchAt(content, si).current),
            total_steps    |-> PyInt(IF si = 0 THEN 0 ELSE StepMatchAt(content, si).total),
            pending_gate   |-> IF gated /\ gi # 0 THEN PyStr(Strip(GateNameAt(content, gi)))
                               ELSE PyNone,
            gate_criteria  |-> IF gated THEN PyList(GateCriteria(content)) ELSE PyList(<<>>),
            last_prompt_id |-> EmptyStr ])
    IN  IF state.v.current_step.v > 0 \/ Truthy(state.v.pending_gate) THEN state
        ELSE PyNone

\* parse_prompt_engine_response over the responses of the model.
ParseTable ==
    [r \in Responses \cup PartsTexts |-> parse_prompt_engine_response(r)] @@ <<>>

---------------------------------------------------------------------------
(* How a hook process ends                                                 *)

\* What the host wrote to the hook's standard input: a JSON document, already
\* read as a Python value, or text that is no JSON document.
JsonInput(v) ==
    [k |-> "json", v |-> v]

GarbageInput ==
    [k |-> "garbage", v |-> PyNone]

\* parse_hook_input(): json.JSONDecodeError gives the empty dict.
parse_hook_input(stdin) ==
    IF stdin.k = "json" THEN stdin.v ELSE EmptyDict

\* sys.exit(code) after printing the documents in printed.
Exit(code, printed) ==
    [exit |-> code, stdout |-> printed, raised |-> ""]

\* An exception nothing catches: a traceback on stderr and exit status 1.
Uncaught(e) ==
    [exit |-> 1, stdout |-> <<>>, raised |-> e]

\* x in v  is defined for a str, a list and a dict; otherwise TypeError.
SupportsIn(v) ==
    v.t \in {"str", "list", "dict"}

PROMPT_ENGINE ==
    <<"p","r","o","m","p","t","_","e","n","g","i","n","e">>

GATE_REVIEW_TAG ==
    <<"G","A","T","E","_","R","E","V","I","E","W",":">>

FAIL_WORD ==
    <<"F","A","I","L">>

UNSPECIFIED ==
    <<"u","n","s","p","e","c","i","f","i","e","d">>

MsgGateFailedHead ==
    <<"G","a","t","e"," ","f","a","i","l","e","d",":"," ">>

MsgGateFailedTail ==
    <<"."," ","R","e","v","i","e","w"," ","t","h","e"," ","g","a","t","e"," ","c","r","i","t",
      "e","r","i","a"," ","a","n","d"," ","r","e","t","r","y"," ","w","i","t","h"," ","i","m",
      "p","r","o","v","e","m","e","n","t","s","."," ","R","e","s","u","b","m","i","t"," ","w",
      "i","t","h"," ","G","A","T","E","_","R","E","V","I","E","W",":"," ","P","A","S","S"," ",
      "o","n","c","e"," ","c","r","i","t","e","r","i","a"," ","a","r","e"," ","m","e","t",".">>

MsgPendingGateHead ==
    <<"C","h","a","i","n"," ","r","e","s","u","m","e"," ","r","e","q","u","i","r","e","s"," ",
      "g","a","t","e"," ","v","e","r","d","i","c","t","."," ","P","e","n","d","i","n","g"," ",
      "g","a","t","e",":"," ">>

MsgPendingGateTail ==
    <<"."," ","I","n","c","l","u","d","e"," ","g","a","t","e","_","v","e","r","d","i","c","t",
      ":"," ","G","A","T","E","_","R","E","V","I","E","W",":"," ","P","A","S","S","|","F","A",
      "I","L"," ","-"," ","<","r","e","a","s","o","n",">">>

MsgUserResponse ==
    <<"C","h","a","i","n"," ","r","e","s","u","m","e"," ","r","e","q","u","i","r","e","s"," ",
      "u","s","e","r","_","r","e","s","p","o","n","s","e"," ","w","i","t","h"," ","y","o","u",
      "r"," ","o","u","t","p","u","t"," ","f","r","o","m"," ","t","h","e"," ","p","r","e","v",
      "i","o","u","s"," ","s","t","e","p","."," ","I","n","c","l","u","d","e"," ","u","s","e",
      "r","_","r","e","s","p","o","n","s","e"," ","p","a","r","a","m","e","t","e","r"," ","w",
      "i","t","h"," ","t","h","e"," ","w","o","r","k"," ","c","o","m","p","l","e","t","e","d",
      ".">>

---------------------------------------------------------------------------
(* gate-enforce.py: the PreToolUse hook                                    *)

\* The same search without re.IGNORECASE.
FailMatch_CaseSensitive(verdict) ==
    \E i \in 1..Len(verdict) :
        /\ MatchAt(verdict, i, GATE_REVIEW_TAG)
        /\ MatchAt(verdict, SkipSpace(verdict, i + Len(GATE_REVIEW_TAG)), FAIL_WORD)

\* re.search(r'GATE_REVIEW:\s*FAIL', gate_verdict, re.IGNORECASE)
FailMatch(verdict) ==
    \E i \in 1..Len(verdict) :
        /\ MatchAtCI(verdict, i, GATE_REVIEW_TAG)
        /\ MatchAtCI(verdict, SkipSpace(verdict, i + Len(GATE_REVIEW_TAG)), FAIL_WORD)

\* FAIL\s*[-:]\s*(.+)  matched, ignoring case, at position i.
ReasonMatchAt(verdict, i) ==
    /\ MatchAtCI(verdict, i, FAIL_WORD)
    /\ LET j == SkipSpace(verdict, i + Len(FAIL_WORD))
       IN  /\ j <= Len(verdict)
           /\ verdict[j] \in {"-", ":"}
           /\ DotStart(verdict, j + 1) # 0

\* reason_match.group(1).strip() if reason_match else "unspecified"
FailReason(verdict) ==
    LET i == FirstMatch(verdict, LAMBDA k : ReasonMatchAt(verdict, k))
    IN  IF i = 0 THEN UNSPECIFIED
        ELSE LET start == DotStart(verdict, SkipSpace(verdict, i + Len(FAIL_WORD)) + 1)
             IN  Strip(SubSeq(verdict, start, LineEnd(verdict, start) - 1))

\* Both, over the verdicts of the model.
FailMatchTable ==
    [v \in Verdicts |-> FailMatch(v)] @@ <<>>

FailReasonTable ==
    [v \in Verdicts |-> FailReason(v)] @@ <<>>

\* A hook that forgot to look at the tool name.
NamesPromptEngine_AnyTool(s) ==
    TRUE

\* "prompt_engine" in s  for a string, and over the tool names of the model.
NamesPromptEngine(s) ==
    IsSubstring(PROMPT_ENGINE, s)

NamesPromptEngineTable ==
    [t \in ToolNames |-> NamesPromptEngine(t)] @@ <<>>

\* "prompt_engine" in tool_name  for a str, a list or a dict.
IsPromptEngineTool(tool_name) ==
    CASE tool_name.t = "str"  -> Tabled(NamesPromptEngineTable, tool_name.v, NamesPromptEngine)
      [] tool_name.t = "list" -> \E i \in 1..Len(tool_name.v) : tool_name.v[i] = PyStr(PROMPT_ENGINE)
      [] tool_name.t = "dict" -> "prompt_engine" \in DOMAIN tool_name.v

\* The structured denial printed on stdout.
Deny(reason) ==
    [hookEventName |-> "PreToolUse",
     permissionDecision |-> "deny",
     permissionDecisionReason |-> reason]

\* Check 1 denying whatever verdict is given.
Check1Fires_AnyVerdict(gate_verdict) ==
    Truthy(gate_verdict)

\* Check 1:  if gate_verdict:  ...  if fail_match:
Check1Fires(gate_verdict) ==
    Truthy(gate_verdict) /\ Tabled(FailMatchTable, gate_verdict.v, FailMatch)

\* Check 2 with its test of gate_verdict the wrong way round.
Check2Applies_WithVerdict(chain_id, gate_verdict) ==
    Truthy(chain_id) /\ Truthy(gate_verdict)

\* Check 2:  if chain_id and not gate_verdict:
Check2Applies(chain_id, gate_verdict) ==
    Truthy(chain_id) /\ ~Truthy(gate_verdict)

\* Check 3 without its test of chain_id.
Check3Fires_WithoutChain(chain_id, user_response) ==
    ~Truthy(user_response)

\* Check 3:  if chain_id and not user_response:
Check3Fires(chain_id, user_response) ==
    Truthy(chain_id) /\ ~Truthy(user_response)

\* Check 3 and the final  sys.exit(0).
Check3(chain_id, user_response) ==
    IF Check3Fires(chain_id, user_response)
    THEN Exit(0, <<Deny(MsgUserResponse)>>)
    ELSE Exit(0, <<>>)

\* Check 3 run before check 2.
Check2_ResponseFirst(hook_input, fs, chain_id, gate_verdict, user_response) ==
    IF Check3Fires(chain_id, user_response) THEN Check3(chain_id, user_response)
    ELSE
    LET session_id == Get(hook_input, "session_id", EmptyStr)
        state      == IF Truthy(session_id) THEN load_session_state(fs, session_id.v).value
                      ELSE PyNone
    IN  IF /\ Check2Applies(chain_id, gate_verdict)
           /\ state.t = "dict"
           /\ Truthy(Get(state, "pending_gate", PyNone))
        THEN Exit(0, <<Deny(MsgPendingGateHead \o Format(state.v["pending_gate"])
                            \o MsgPendingGateTail)>>)
        ELSE Exit(0, <<>>)

\* Check 2 leaving through the final sys.exit(0) when it finds no pending
\* gate, so that check 3 is skipped.
Check2_StopsWithoutGate(hook_input, fs, chain_id, gate_verdict, user_response) ==
    IF ~Check2Applies(chain_id, gate_verdict) THEN Check3(chain_id, user_response)
    ELSE
    LET session_id == Get(hook_input, "session_id", EmptyStr)
        state      == IF Truthy(session_id) THEN load_session_state(fs, session_id.v).value
                      ELSE PyNone
    IN  IF state.t = "dict" /\ Truthy(Get(state, "pending_gate", PyNone))
        THEN Exit(0, <<Deny(MsgPendingGateHead \o Format(state.v["pending_gate"])
                            \o MsgPendingGateTail)>>)
        ELSE Exit(0, <<>>)

\* Check 2 denying only the chain the pending gate was recorded for.
Check2_SameChainOnly(hook_input, fs, chain_id, gate_verdict, user_response) ==
    IF ~Check2Applies(chain_id, gate_verdict) THEN Check3(chain_id, user_response)
    ELSE
    LET session_id == Get(hook_input, "session_id", EmptyStr)
        loaded     == IF Truthy(session_id) THEN load_session_state(fs, session_id.v)
                      ELSE Returned(PyNone)
        state      == loaded.value
    IN  IF loaded.raised # "" THEN Uncaught(loaded.raised)
        ELSE IF ~Truthy(state) THEN Check3(chain_id, user_response)
        ELSE IF ~HasGet(state) THEN Uncaught("AttributeError")
        ELSE IF /\ Truthy(Get(state, "pending_gate", PyNone))
                /\ Get(state, "chain_id", EmptyStr) = chain_id
        THEN Exit(0, <<Deny(MsgPendingGateHead \o Format(state.v["pending_gate"])
                            \o MsgPendingGateTail)>>)
        ELSE Check3(chain_id, user_response)

\* Check 2, then check 3.
Check2(hook_input, fs, chain_id, gate_verdict, user_response) ==
    IF ~Check2Applies(chain_id, gate_verdict) THEN Check3(chain_id, user_response)
    ELSE
    LET session_id == Get(hook_input, "session_id", EmptyStr)
        loaded     == IF Truthy(session_id) THEN load_session_state(fs, session_id.v)
                      ELSE Returned(PyNone)
        state      == loaded.value
    IN  IF loaded.raised # "" THEN Uncaught(loaded.raised)
        ELSE IF ~Truthy(state) THEN Check3(chain_id, user_response)
        ELSE IF ~HasGet(state) THEN Uncaught("AttributeError")
        ELSE IF Truthy(Get(state, "pending_gate", PyNone))
        THEN Exit(0, <<Deny(MsgPendingGateHead \o Format(state.v["pending_gate"])
                            \o MsgPendingGateTail)>>)
        ELSE Check3(chain_id, user_response)

\* main() of gate-enforce.py on the input stdin, with the directory fs.
gate_enforce(stdin, fs) ==
    LET hook_input == parse_hook_input(stdin)
        tool_name  == Get(hook_input, "tool_name", EmptyStr)
        tool_input == Get(hook_input, "tool_input", EmptyDict)
        chain_id      == Get(tool_input, "chain_id", EmptyStr)
        gate_verdict  == Get(tool_input, "gate_verdict", EmptyStr)
        user_response == Get(tool_input, "user_response", EmptyStr)
    IN  IF ~HasGet(hook_input) THEN Uncaught("AttributeError")
        ELSE IF ~SupportsIn(tool_name) THEN Uncaught("TypeError")
        ELSE IF ~IsPromptEngineTool(tool_name) THEN Exit(0, <<>>)
        ELSE IF ~HasGet(tool_input) THEN Uncaught("AttributeError")
        ELSE IF Truthy(gate_verdict) /\ gate_verdict.t # "str" THEN Uncaught("TypeError")
        ELSE IF Check1Fires(gate_verdict)
        THEN Exit(0, <<Deny(MsgGateFailedHead \o Tabled(FailReasonTable, gate_verdict.v, FailReason)
                            \o MsgGateFailedTail)>>)
        ELSE Check2(hook_input, fs, chain_id, gate_verdict, user_response)

---------------------------------------------------------------------------
(* post-prompt-engine.py: the PostToolUse hook                             *)

MsgGateLine ==
    <<"[","G","a","t","e","]"," ">>

MsgRespondLine ==
    <<" "," ","R","e","s","p","o","n","d",":"," ","G","A","T","E","_","R","E","V","I","E","W",
      ":"," ","P","A","S","S","|","F","A","I","L"," ","-"," ","<","r","e","a","s","o","n",">">>

MsgCheckLine ==
    <<" "," ","C","h","e","c","k",":"," ">>

CriteriaSeparator ==
    <<" ","|"," ">>

MsgChainStep ==
    <<"[","C","h","a","i","n","]"," ","S","t","e","p"," ">>

MsgChainContinue ==
    <<" ","-"," ","c","a","l","l"," ","p","r","o","m","p","t","_","e","n","g","i","n","e"," ",
      "t","o"," ","c","o","n","t","i","n","u","e">>

\* The reminder cuts:  c[:40] for c in criteria[:3]
ReminderCriteria ==
    3

ReminderWidth ==
    40

\* s[:n]
Take(s, n) ==
    SubSeq(s, 1, IF Len(s) < n THEN Len(s) ELSE n)

RECURSIVE Join(_, _)
\* sep.join(parts)
Join(sep, parts) ==
    IF parts = <<>> THEN <<>>
    ELSE IF Len(parts) = 1 THEN parts[1]
    ELSE parts[1] \o sep \o Join(sep, Tail(parts))

\* block.get("text", "") if isinstance(block, dict) else str(block)
BlockText(block) ==
    IF block.t = "dict" THEN Get(block, "text", EmptyStr) ELSE PyStr(Format(block))

\* The text handed to the parser: tool_response.get("content", "") of a dict,
\* its blocks joined by a space when that is a list, else str(tool_response).
ResponseContent(tool_response) ==
    IF tool_response.t = "dict"
    THEN LET content == Get(tool_response, "content", EmptyStr)
         IN  IF content.t = "list"
             THEN PyStr(Join(<<" ">>, [i \in 1..Len(content.v) |-> BlockText(content.v[i]).v]))
             ELSE content
    ELSE PyStr(Format(tool_response))

\* The PostToolUse reminder printed on stdout.
Reminder(text) ==
    [hookEventName |-> "PostToolUse", additionalContext |-> text]

\* The [Gate] lines of the reminder.
GateLines(state) ==
    IF ~Truthy(Get(state, "pending_gate", PyNone)) THEN <<>>
    ELSE
    LET criteria == Get(state, "gate_criteria", PyList(<<>>)).v
        shown    == Take(criteria, ReminderCriteria)
        criteria_str ==
            Join(CriteriaSeparator, [i \in 1..Len(shown) |-> Take(shown[i].v, ReminderWidth)])
    IN  << MsgGateLine \o Format(state.v["pending_gate"]), MsgRespondLine >>
        \o (IF Len(criteria_str) > 0 THEN << MsgCheckLine \o criteria_str >> ELSE <<>>)

\* The [Chain] line printed for every step, the last one and later included.
ChainLines_EveryStep(state) ==
    LET step  == state.v["current_step"].v
        total == state.v["total_steps"].v
    IN  IF step > 0 /\ total > 0
        THEN << MsgChainStep \o Decimal(step) \o <<"/">> \o Decimal(total) \o MsgChainContinue >>
        ELSE <<>>

\* The [Chain] line of the reminder.
ChainLines(state) ==
    LET step  == state.v["current_step"].v
        total == state.v["total_steps"].v
    IN  IF step > 0 /\ total > 0 /\ step < total
        THEN << MsgChainStep \o Decimal(step) \o <<"/">> \o Decimal(total) \o MsgChainContinue >>
        ELSE <<>>

\* What main() prints after saving the state.
ReminderOutput(state) ==
    LET output_lines == GateLines(state) \o ChainLines(state)
    IN  IF output_lines = <<>> THEN <<>>
        ELSE << Reminder(Join(<<"\n">>, output_lines)) >>

\* What the hook hands to the parser and what the parser gives back.
ParsedState(tool_response) ==
    Tabled(ParseTable, ResponseContent(tool_response).v, parse_prompt_engine_response)

\* The directory after  save_session_state(session_id, state).
SaveParsed(fs, session_id, state) ==
    save_session_state(fs, session_id.v, state)

\* The hook clearing the session's record when the response says nothing.
post_prompt_engine_clears(stdin, fs) ==
    LET hook_input    == parse_hook_input(stdin)
        tool_name     == Get(hook_input, "tool_name", EmptyStr)
        session_id    == Get(hook_input, "session_id", EmptyStr)
        tool_response == Get(hook_input, "tool_response", EmptyDict)
        state         == ParsedState(tool_response)
    IN  IF ~HasGet(hook_input) THEN [result |-> Uncaught("AttributeError"), files |-> fs]
        ELSE IF ~SupportsIn(tool_name) THEN [result |-> Uncaught("TypeError"), files |-> fs]
        ELSE IF ~IsPromptEngineTool(tool_name) THEN [result |-> Exit(0, <<>>), files |-> fs]
        ELSE IF ~Truthy(state)
        THEN [result |-> Exit(0, <<>>), files |-> clear_session_state(fs, session_id.v)]
        ELSE [result |-> Exit(0, ReminderOutput(state)),
              files  |-> SaveParsed(fs, session_id, state)]

\* main() of post-prompt-engine.py on the input stdin, with the directory fs:
\* how the process ends (result) and the directory afterwards (files).
post_prompt_engine(stdin, fs) ==
    LET hook_input    == parse_hook_input(stdin)
        tool_name     == Get(hook_input, "tool_name", EmptyStr)
        session_id    == Get(hook_input, "session_id", EmptyStr)
        tool_response == Get(hook_input, "tool_response", EmptyDict)
        state         == ParsedState(tool_response)
    IN  IF ~HasGet(hook_input) THEN [result |-> Uncaught("AttributeError"), files |-> fs]
        ELSE IF ~SupportsIn(tool_name) THEN [result |-> Uncaught("TypeError"), files |-> fs]
        ELSE IF ~IsPromptEngineTool(tool_name) THEN [result |-> Exit(0, <<>>), files |-> fs]
        ELSE IF ~Truthy(state) THEN [result |-> Exit(0, <<>>), files |-> fs]
        ELSE IF save_raises(fs, session_id.v) # ""
        THEN [result |-> Uncaught(save_raises(fs, session_id.v)), files |-> fs]
        ELSE [result |-> Exit(0, ReminderOutput(state)),
              files  |-> SaveParsed(fs, session_id, state)]

---------------------------------------------------------------------------
(* The inputs the host hands to the hooks                                  *)

\* Chains an invocation can name: c1, c2, ...
NumChainIds ==
    2

\* The sessions of the host.
Sessions ==
    { <<"s","1">>, <<"s","2">> }

ChainIds ==
    {<<"c", DigitChars[i + 1]>> : i \in 1..NumChainIds}

\* An optional parameter: the empty set (the key is missing) or one string.
Optional(S) ==
    {{}} \cup {{x} : x \in S}

\* tool_input with the parameters given.
ToolInput(chain_id, gate_verdict, user_response) ==
    LET given == [chain_id |-> chain_id, gate_verdict |-> gate_verdict,
                  user_response |-> user_response]
        keys  == {k \in DOMAIN given : given[k] # {}}
    IN  PyDict([k \in keys |-> PyStr(CHOOSE x \in given[k] : TRUE)])

\* The PreToolUse input of a well-formed invocation.
Invocation(tool, session, chain_id, gate_verdict, user_response) ==
    JsonInput(PyDict([tool_name  |-> PyStr(tool),
                      session_id |-> PyStr(session),
                      tool_input |-> ToolInput(chain_id, gate_verdict, user_response)]))

\* The PostToolUse input for a tool response given as a plain string.
Response(tool, session, text) ==
    JsonInput(PyDict([tool_name     |-> PyStr(tool),
                      session_id    |-> PyStr(session),
                      tool_response |-> PyStr(text)]))

\* The same for a response given as content blocks: RespStep2of5 in two blocks,
\* the second one a bare string.
BlockResponse(tool, session) ==
    JsonInput(PyDict([tool_name     |-> PyStr(tool),
                      session_id    |-> PyStr(session),
                      tool_response |-> PyDict([content |-> PyList(<<
                          PyDict([type |-> PyStr(<<"t","e","x","t">>),
                                  text |-> PyStr(<<"S","t","e","p"," ","2">>)]),
                          PyStr(<<"o","f"," ","5">>) >>)])]))

\* Every prompt_engine invocation, and the invocations of another tool with
\* every chain_id and user_response, without a verdict or with a FAIL verdict.
GateInputs ==
    {Invocation(ToolPromptEngine, s, c, v, u) :
        s \in Sessions, c \in Optional(ChainIds),
        v \in Optional(Verdicts), u \in Optional({UserResponseDone})}
    \cup
    {Invocation(ToolBash, s, c, v, u) :
        s \in Sessions, c \in Optional(ChainIds),
        v \in Optional({VerdictFailMissingTests}), u \in Optional({UserResponseDone})}

PostInputs ==
    {Response(t, s, r) : t \in ToolNames, s \in Sessions, r \in Responses}
    \cup {BlockResponse(t, s) : t \in ToolNames, s \in Sessions}

---------------------------------------------------------------------------
(* The state machine: the host runs one hook process at a time             *)

\* No session has a file; the directory exists or can be made.
EmptyDirectory ==
    [p \in Sessions \cup {SESSION_STATE_DIR} |->
        IF p = SESSION_STATE_DIR THEN DirNode ELSE NoFile]

NoRun ==
    [hook |-> "none", stdin |-> GarbageInput, result |-> Exit(0, <<>>),
     before |-> EmptyDirectory]

\* No save is under way on a file.
NoSave ==
    [busy |-> FALSE]

\* No marker file, no plan-review.py process under way.
NoPlanReview ==
    [marker |-> {}, looked |-> [s \in Sessions |-> 0]]

Init ==
    /\ files = EmptyDirectory
    /\ out = NoRun
    /\ saving = [s \in Sessions |-> NoSave]
    /\ plan = NoPlanReview

\* gate-enforce.py runs on stdin: it reads the directory and leaves it alone.
RunGate(stdin) ==
    /\ out' = [hook |-> "gate", stdin |-> stdin,
               result |-> gate_enforce(stdin, files), before |-> files]
    /\ UNCHANGED <<files, saving, plan>>

\* post-prompt-engine.py runs on stdin.
RunPost(stdin) ==
    LET r == post_prompt_engine(stdin, files)
    IN  /\ files' = r.files
        /\ out' = [hook |-> "post", stdin |-> stdin,
                   result |-> r.result, before |-> files]
        /\ UNCHANGED <<saving, plan>>

\* The host is about to call a tool.
GateEnforce ==
    \E stdin \in GateInputs : RunGate(stdin)

\* A tool has answered.
PostPromptEngine ==
    \E stdin \in PostInputs : RunPost(stdin)

Next ==
    \/ GateEnforce
    \/ PostPromptEngine

Spec ==
    Init /\ [][Next]_vars

---------------------------------------------------------------------------
(* The same machine with faults: a session file damaged between two hook   *)
(* runs, and inputs that are not what the host documents                   *)

\* What a damaged session file can hold: no JSON, no access, no UTF-8, a JSON
\* document that is no object ([1], truthy in Python), and null (falsy).
CorruptContents ==
    { GarbageFile, NoAccessFile, BadUtf8File,
      JsonFile(JArray(<<JNumber(1)>>)), JsonFile(JNull) }

\* A PreToolUse payload built from the fields given (a function from keys).
Payload(fields) ==
    JsonInput(PyDict(fields))

S1 ==
    PyStr(<<"s","1">>)

C1Id ==
    PyStr(<<"c","1">>)

PromptTool ==
    PyStr(ToolPromptEngine)

\* Payloads the gate can be handed that are not well-formed invocations.
MalformedGateInputs ==
    { GarbageInput,
      JsonInput(PyList(<<>>)),
      JsonInput(PyNone),
      Payload([session_id |-> S1, tool_input |-> PyDict([chain_id |-> C1Id])]),
      Payload([tool_name |-> PyNone, session_id |-> S1]),
      Payload([tool_name |-> PyInt(7), session_id |-> S1]),
      Payload([tool_name |-> PyList(<<PyStr(PROMPT_ENGINE)>>), session_id |-> S1,
               tool_input |-> PyDict([chain_id |-> C1Id])]),
      Payload([tool_name |-> PromptTool, session_id |-> S1]),
      Payload([tool_name |-> PromptTool, session_id |-> S1, tool_input |-> PyNone]),
      Payload([tool_name |-> PyStr(ToolBash), session_id |-> S1, tool_input |-> PyNone]),
      Payload([tool_name |-> PromptTool, session_id |-> S1,
               tool_input |-> PyStr(<<"c","1">>)]),
      Payload([tool_name |-> PromptTool, session_id |-> S1,
               tool_input |-> PyDict([gate_verdict |-> PyInt(1)])]),
      Payload([tool_name |-> PromptTool, session_id |-> S1,
               tool_input |-> PyDict([chain_id |-> C1Id, gate_verdict |-> PyInt(0),
                                      user_response |-> PyStr(UserResponseDone)])]),
      Payload([tool_name |-> PromptTool, session_id |-> S1,
               tool_input |-> PyDict([chain_id |-> PyInt(7),
                                      user_response |-> PyList(<<>>)])]),
      Payload([tool_name |-> PromptTool,
               tool_input |-> PyDict([chain_id |-> C1Id,
                                      user_response |-> PyStr(UserResponseDone)])]) }

\* Payloads the post hook can be handed that are not well-formed responses.
MalformedPostInputs ==
    { GarbageInput,
      JsonInput(PyList(<<>>)),
      Payload([tool_name |-> PyNone, session_id |-> S1]),
      Payload([tool_name |-> PromptTool, session_id |-> S1]),
      Payload([tool_name |-> PromptTool, session_id |-> S1, tool_response |-> PyNone]),
      Payload([tool_name |-> PyStr(ToolBash), session_id |-> S1, tool_response |-> PyNone]) }

\* A session file is damaged behind the hooks' back.
CorruptRecord ==
    \E s \in Sessions, c \in CorruptContents :
        /\ files[SESSION_STATE_DIR] = DirNode
        /\ files' = [files EXCEPT ![s] = c]
        /\ out' = [NoRun EXCEPT !.hook = "fault", !.before = files]
        /\ UNCHANGED <<saving, plan>>

\* The plugin is installed read-only before any hook has made the sessions
\* directory: from now on mkdir fails.
DirectoryUnwritable ==
    /\ files = EmptyDirectory
    /\ files' = [files EXCEPT ![SESSION_STATE_DIR] = NoDirNode]
    /\ out' = [NoRun EXCEPT !.hook = "fault", !.before = files]
    /\ UNCHANGED <<saving, plan>>

GateEnforceMalformed ==
    \E stdin \in MalformedGateInputs : RunGate(stdin)

PostPromptEngineMalformed ==
    \E stdin \in MalformedPostInputs : RunPost(stdin)

NextFault ==
    \/ GateEnforce
    \/ PostPromptEngine
    \/ CorruptRecord
    \/ DirectoryUnwritable
    \/ GateEnforceMalformed
    \/ PostPromptEngineMalformed

SpecFault ==
    Init /\ [][NextFault]_vars

---------------------------------------------------------------------------
(* The store with overlapping processes: the hooks of several tool calls   *)
(* run side by side, and a save is two steps, the open that truncates the  *)
(* file and the dump that fills it                                         *)

\* A session id that pathlib maps to the file of session s1.
DotSlashS1 ==
    <<".", "/", "s", "1">>

ConcSessionIds ==
    Sessions \cup {DotSlashS1}

\* Responses the overlapping post hooks store: a gate, and a step without one.
ConcPostInputs ==
    {Response(ToolPromptEngine, s, r) :
        s \in ConcSessionIds, r \in {RespGateSecurity, RespStep2of5}}

\* A chain resume without a verdict, which check 2 decides on the stored record.
ConcGateInputs ==
    {Invocation(ToolPromptEngine, s, {<<"c","1">>}, {}, {UserResponseDone}) :
        s \in ConcSessionIds}

\* A direct call of load_session_state or clear_session_state for a session.
StoreCall(session) ==
    JsonInput(PyDict([session_id |-> PyStr(session)]))

\* post-prompt-engine.py up to  open(state_path, "w")  inside save_session_state.
PostOpens ==
    \E stdin \in ConcPostInputs :
        LET state_path == PathName(stdin.v.v.session_id.v)
        IN  /\ ~saving[state_path].busy
            /\ files' = OpenTruncate(files, state_path)
            /\ UNCHANGED plan
            /\ saving' = [saving EXCEPT ![state_path] =
                             [busy |-> TRUE, stdin |-> stdin,
                              prev |-> files[state_path], unlinked |-> FALSE]]
            /\ out' = [hook |-> "open", stdin |-> stdin,
                       result |-> Exit(0, <<>>), before |-> files]

\* The rest of that process: json.dump, the file closed, the reminder printed.
\* A file unlinked in between is written to all the same, and is gone.
PostCloses ==
    \E state_path \in Sessions :
        LET stdin == saving[state_path].stdin
        IN  /\ saving[state_path].busy
            /\ files' = IF saving[state_path].unlinked THEN files
                        ELSE DumpAndClose(files, state_path,
                                          ParsedState(stdin.v.v.tool_response))
            /\ UNCHANGED plan
            /\ saving' = [saving EXCEPT ![state_path] = NoSave]
            /\ out' = [hook |-> "post", stdin |-> stdin,
                       result |-> post_prompt_engine(stdin, files).result,
                       before |-> files]

\* load_session_state(session_id) called by some process.
Load ==
    \E s \in ConcSessionIds :
        /\ out' = [hook |-> "load", stdin |-> StoreCall(s),
                   result |-> load_session_state(files, s), before |-> files]
        /\ UNCHANGED <<files, saving, plan>>

\* clear_session_state(session_id) called by some process.
Clear ==
    \E s \in ConcSessionIds :
        /\ files' = clear_session_state(files, s)
        /\ UNCHANGED plan
        /\ saving' = [saving EXCEPT ![PathName(s)] =
                         IF @.busy THEN [@ EXCEPT !.unlinked = TRUE] ELSE @]
        /\ out' = [hook |-> "clear", stdin |-> StoreCall(s),
                   result |-> Exit(0, <<>>), before |-> files]

\* gate-enforce.py run while saves may be under way.
GateDuringSave ==
    \E stdin \in ConcGateInputs : RunGate(stdin)

NextConc ==
    \/ PostOpens
    \/ PostCloses
    \/ Load
    \/ Clear
    \/ GateDuringSave

SpecConc ==
    Init /\ [][NextConc]_vars

---------------------------------------------------------------------------
(* The parser on its own: responses written around one step marker,        *)
(* "<lead><word> <step><sep><total>"                                       *)

Markers ==
    [ lead  : { <<>>, <<"S","t","e","p"," ","1"," ","o","f"," ","3","."," ">> },
      word  : { <<"S","t","e","p">>, <<"s","t","e","p">>, <<"S","T","E","P">>,
                <<"P","r","o","g","r","e","s","s">>, <<"p","r","o","g","r","e","s","s">>,
                <<"P","R","O","G","R","E","S","S">> },
      step  : {0, 2, 12},
      sep   : { <<" ","o","f"," ">>, <<"/">> },
      total : {5, 50} ]

MarkerText(m) ==
    m.lead \o m.word \o <<" ">> \o Decimal(m.step) \o m.sep \o Decimal(m.total)

\* parse_prompt_engine_response is called on one of these texts.
Interprets ==
    \E m \in Markers :
        /\ out' = [hook |-> "parse", stdin |-> m,
                   result |-> Returned(parse_prompt_engine_response(MarkerText(m))),
                   before |-> files]
        /\ UNCHANGED <<files, saving, plan>>

NextParse ==
    Interprets

SpecParse ==
    Init /\ [][NextParse]_vars

---------------------------------------------------------------------------
(* The post hook alone, one session, on the responses written from parts   *)

\* The PostToolUse inputs of session s1 for  prompt_engine(command:">>review")
\* and  prompt_engine(command:">>deploy"),  answered with one of these texts.
PartsInputs ==
    {JsonInput(PyDict([tool_name     |-> PyStr(ToolPromptEngine),
                       session_id    |-> PyStr(<<"s","1">>),
                       tool_input    |-> PyDict([command |-> PyStr(<<">",">">> \o id)]),
                       tool_response |-> PyStr(r)])) :
        id \in {<<"r","e","v","i","e","w">>, <<"d","e","p","l","o","y">>}, r \in PartsTexts}

\* prompt_engine has answered session s1 with one of these responses.
PostStores ==
    \E stdin \in PartsInputs : RunPost(stdin)

SpecRecords ==
    Init /\ [][PostStores]_vars

---------------------------------------------------------------------------
(* plan-review.py: the PreToolUse hook on ExitPlanMode.  A process looks    *)
(* for the session's marker file, and if there is none makes it and blocks *)
(* the tool; between the two steps other processes run.                    *)

ToolExitPlanMode ==
    <<"E","x","i","t","P","l","a","n","M","o","d","e">>

\* How many plan-review.py processes of one session can be between
\* marker_path.exists() and marker_path.touch() at a time.
MaxPlanProcesses ==
    2

\* The first line of review_prompt.
REVIEW_PROMPT ==
    "[Plan Review Gate]"

\* marker_dir / f"{session_id}.done"
get_session_marker_path(session_id) ==
    session_id \o <<".","d","o","n","e">>

\* print(review_prompt, file=sys.stderr); sys.exit(2)
Blocked ==
    [raised |-> "", exit |-> 2, stdout |-> <<>>, stderr |-> REVIEW_PROMPT]

PlanInput(tool, session) ==
    JsonInput(PyDict([tool_name |-> PyStr(tool), session_id |-> PyStr(session)]))

PlanInputs ==
    {PlanInput(t, s) : t \in {ToolExitPlanMode, ToolBash}, s \in Sessions}

\* main() up to  marker_path.exists():  another tool and a session with a
\* marker are allowed through at once, else the process goes on to touch().
PlanReviewLooks ==
    \E stdin \in PlanInputs :
        LET hook_input == parse_hook_input(stdin)
            tool_name  == Get(hook_input, "tool_name", EmptyStr)
            session_id == Get(hook_input, "session_id", PyStr(<<"d","e","f","a","u","l","t">>))
        IN  IF \/ tool_name # PyStr(ToolExitPlanMode)
               \/ get_session_marker_path(session_id.v) \in plan.marker
            THEN /\ out' = [hook |-> "plan", stdin |-> stdin,
                            result |-> Exit(0, <<>>), before |-> files]
                 /\ UNCHANGED <<files, saving, plan>>
            ELSE /\ plan.looked[session_id.v] < MaxPlanProcesses
                 /\ plan' = [plan EXCEPT !.looked[session_id.v] = @ + 1]
                 /\ out' = [hook |-> "look", stdin |-> stdin,
                            result |-> Exit(0, <<>>), before |-> files]
                 /\ UNCHANGED <<files, saving>>

\* The rest of a process that found no marker:  marker_path.touch(),  the
\* reflection prompt on stderr, exit status 2.
PlanReviewBlocks ==
    \E s \in Sessions :
        /\ plan.looked[s] > 0
        /\ plan' = [marker |-> plan.marker \cup {get_session_marker_path(s)},
                    looked |-> [plan.looked EXCEPT ![s] = @ - 1]]
        /\ out' = [hook |-> "plan", stdin |-> PlanInput(ToolExitPlanMode, s),
                   result |-> Blocked, before |-> files]
        /\ UNCHANGED <<files, saving>>

NextPlan ==
    \/ PlanReviewLooks
    \/ PlanReviewBlocks

SpecPlan ==
    Init /\ [][NextPlan]_vars

---------------------------------------------------------------------------
(* Reading the last hook run                                               *)

\* The last run was the gate (the post hook) on a well-formed input.
GateRan ==
    out.hook = "gate" /\ out.stdin \in GateInputs

PostRan ==
    out.hook = "post" /\ out.stdin \in PostInputs

\* The fields of the last well-formed input.
LastTool ==
    out.stdin.v.v.tool_name.v

LastSession ==
    out.stdin.v.v.session_id.v

\* A parameter of the last invocation, the empty string when it is missing.
LastParam(name) ==
    Get(out.stdin.v.v.tool_input, name, EmptyStr).v

\* The gate let the invocation through: exit status 0 and nothing printed.
Allowed ==
    out.result = Exit(0, <<>>)

\* The gate printed a denial (and exited with status 0).
Denied ==
    /\ out.result.exit = 0
    /\ out.result.raised = ""
    /\ Len(out.result.stdout) = 1
    /\ out.result.stdout[1].permissionDecision = "deny"

DenyReason ==
    out.result.stdout[1].permissionDecisionReason

StartsWith(s, prefix) ==
    MatchAt(s, 1, prefix)

\* The pending_gate a session file holds on disk: the string of that member
\* of a JSON object, the empty string in every other case.
PendingGateOf(f) ==
    IF /\ f.k = "json"
       /\ f.doc.j = "object"
       /\ "pending_gate" \in DOMAIN f.doc.members
       /\ f.doc.members.pending_gate.j = "string"
    THEN f.doc.members.pending_gate.s
    ELSE <<>>

SecurityReview ==
    <<"S","e","c","u","r","i","t","y"," ","R","e","v","i","e","w">>

\* The pending gate of the invocation's session when the gate ran.
PendingAtGate ==
    PendingGateOf(out.before[LastSession])

\* The verdicts of the model that match GATE_REVIEW:\s*FAIL ignoring case, and
\* for each the text its denial must echo.
FailingVerdicts ==
    {VerdictFailMissingTests, VerdictFailLowerBare, VerdictFailColon,
     VerdictPassQuotingFail, VerdictFailBlankReason}

PassVerdicts ==
    {VerdictPassAllChecks, VerdictPassQuotingFail}

MissingTests ==
    <<"m","i","s","s","i","n","g"," ","t","e","s","t","s">>

ExpectedEcho(verdict) ==
    CASE verdict = VerdictFailMissingTests -> MissingTests
      [] verdict = VerdictFailColon        -> <<"f","l","a","k","y">>
      [] verdict = VerdictFailBlankReason  -> <<>>
      [] verdict = VerdictFailLowerBare    -> UNSPECIFIED
      [] verdict = VerdictPassQuotingFail  -> UNSPECIFIED

\* The three violations of the protocol, read off the invocation and the file.
FailVerdictGiven ==
    LastParam("gate_verdict") \in FailingVerdicts

VerdictMissingForPendingGate ==
    /\ LastParam("chain_id") # <<>>
    /\ LastParam("gate_verdict") = <<>>
    /\ PendingAtGate # <<>>

UserResponseMissing ==
    /\ LastParam("chain_id") # <<>>
    /\ LastParam("user_response") = <<>>

---------------------------------------------------------------------------
(* The enforcement gate                                                    *)

\* C1 as stated: while a session's record holds a pending gate, no prompt_engine
\* invocation of that session without a gate_verdict is allowed, with or
\* without a chain_id.
PendingGateBlocksEveryVerdictlessCall ==
    (/\ GateRan
     /\ LastTool = ToolPromptEngine
     /\ PendingAtGate # <<>>
     /\ LastParam("gate_verdict") = <<>>)
    => ~Allowed

\* C1 as amended: while a session's record holds a pending gate, no prompt_engine
\* invocation of that session with a chain_id and without a gate_verdict is
\* allowed; one without a chain_id is allowed.
PendingGateBlocksVerdictlessChainCall ==
    (/\ GateRan
     /\ LastTool = ToolPromptEngine
     /\ PendingAtGate # <<>>
     /\ LastParam("gate_verdict") = <<>>)
    => (Allowed <=> LastParam("chain_id") = <<>>)

PendingGateBlocksVerdictlessChainCallWitness ==
    /\ GateRan
    /\ LastTool = ToolPromptEngine
    /\ PendingAtGate # <<>>
    /\ LastParam("gate_verdict") = <<>>
    /\ LastParam("chain_id") # <<>>
    /\ LastParam("user_response") # <<>>
    /\ Denied

\* C2: with a pending gate G stored for the session, an invocation with a
\* chain_id and no gate_verdict is denied and the reason quotes G, whether or
\* not it carries a user_response.
PendingGateDenialQuotesGate ==
    (/\ GateRan
     /\ LastTool = ToolPromptEngine
     /\ VerdictMissingForPendingGate)
    => /\ Denied
       /\ DenyReason = MsgPendingGateHead \o PendingAtGate \o MsgPendingGateTail
       /\ IsSubstring(PendingAtGate, DenyReason)

PendingGateDenialQuotesGateWitness ==
    /\ GateRan
    /\ LastTool = ToolPromptEngine
    /\ VerdictMissingForPendingGate
    /\ PendingAtGate = SecurityReview
    /\ LastParam("user_response") = <<>>
    /\ Denied
    /\ IsSubstring(SecurityReview, DenyReason)

\* C3: a verdict matching GATE_REVIEW:\s*FAIL (ignoring case) is denied before
\* any other rule, for every chain_id, user_response and stored state, and the
\* reason echoes the text after "FAIL -" / "FAIL:", or "unspecified".
FailVerdictDeniedFirst ==
    (/\ GateRan
     /\ LastTool = ToolPromptEngine
     /\ FailVerdictGiven)
    => /\ Denied
       /\ DenyReason = MsgGateFailedHead \o ExpectedEcho(LastParam("gate_verdict"))
                       \o MsgGateFailedTail

FailVerdictDeniedFirstWitness ==
    /\ GateRan
    /\ LastTool = ToolPromptEngine
    /\ LastParam("gate_verdict") = VerdictFailMissingTests
    /\ LastParam("chain_id") # <<>>
    /\ LastParam("user_response") = <<>>
    /\ out.before[LastSession].k = "badutf8"
    /\ Denied
    /\ IsSubstring(MissingTests, DenyReason)

\* C4 as stated: a GATE_REVIEW: PASS verdict is allowed for every chain_id and
\* user_response and every stored state.  (A PASS verdict whose reason quotes a
\* FAIL verdict is left aside here: the gate takes it for a FAIL verdict, C3.)
PassVerdictAlwaysAllowed ==
    (/\ GateRan
     /\ LastTool = ToolPromptEngine
     /\ LastParam("gate_verdict") \in PassVerdicts \ FailingVerdicts)
    => Allowed

\* C4 as amended: a GATE_REVIEW: PASS verdict whose text does not also match
\* the FAIL pattern is allowed exactly when chain_id is absent or user_response
\* is present, whatever is stored; otherwise it is denied for the missing
\* user_response.
PassVerdictAllowedWithResponse ==
    (/\ GateRan
     /\ LastTool = ToolPromptEngine
     /\ LastParam("gate_verdict") \in PassVerdicts \ FailingVerdicts)
    => /\ Allowed <=> ~UserResponseMissing
       /\ ~Allowed => Denied /\ DenyReason = MsgUserResponse

PassVerdictAllowedWithResponseWitness ==
    /\ GateRan
    /\ LastTool = ToolPromptEngine
    /\ LastParam("gate_verdict") = VerdictPassAllChecks
    /\ LastParam("chain_id") # <<>>
    /\ LastParam("user_response") # <<>>
    /\ PendingAtGate # <<>>
    /\ Allowed

\* C5: an invocation with a chain_id and no user_response that neither the FAIL
\* rule nor the pending-gate rule denies is denied with the instruction to
\* include user_response, whatever is stored: also for a session without a
\* record and for an invocation with a PASS verdict.
MissingUserResponseDenied ==
    (/\ GateRan
     /\ LastTool = ToolPromptEngine
     /\ UserResponseMissing
     /\ ~FailVerdictGiven
     /\ ~VerdictMissingForPendingGate)
    => Denied /\ DenyReason = MsgUserResponse

MissingUserResponseDeniedWitness ==
    /\ GateRan
    /\ LastTool = ToolPromptEngine
    /\ UserResponseMissing
    /\ LastParam("gate_verdict") = VerdictPassAllChecks
    /\ out.before[LastSession] = NoFile
    /\ Denied
    /\ DenyReason = MsgUserResponse

\* C6: the gate denies exactly on a protocol violation (a FAIL verdict; a
\* chain_id without verdict while a gate is pending; a chain_id without
\* user_response), the reason is that of the first violation in this order,
\* and every other prompt_engine invocation is allowed.
DeniesOnlyOnViolation ==
    (GateRan /\ LastTool = ToolPromptEngine)
    => /\ Denied <=> (FailVerdictGiven \/ VerdictMissingForPendingGate \/ UserResponseMissing)
       /\ ~Denied => Allowed
       /\ Denied =>
            /\ StartsWith(DenyReason, MsgGateFailedHead) <=> FailVerdictGiven
            /\ StartsWith(DenyReason, MsgPendingGateHead)
                 <=> (~FailVerdictGiven /\ VerdictMissingForPendingGate)
            /\ DenyReason = MsgUserResponse
                 <=> (~FailVerdictGiven /\ ~VerdictMissingForPendingGate)

DeniesOnlyOnViolationWitness ==
    /\ GateRan
    /\ LastTool = ToolPromptEngine
    /\ LastParam("chain_id") # <<>>
    /\ LastParam("gate_verdict") = VerdictUntagged
    /\ LastParam("user_response") # <<>>
    /\ PendingAtGate # <<>>
    /\ Allowed

\* The last input names a tool other than prompt_engine, whatever else it holds.
OtherToolNamed ==
    /\ out.stdin.k = "json"
    /\ out.stdin.v.t = "dict"
    /\ "tool_name" \in DOMAIN out.stdin.v.v
    /\ out.stdin.v.v.tool_name = PyStr(ToolBash)

\* C7: for a tool whose name does not contain "prompt_engine" the gate allows,
\* whatever tool_input and the stored state are, and the post hook leaves every
\* session file as it was and prints nothing.
OtherToolsPassUntouched ==
    /\ (out.hook = "gate" /\ OtherToolNamed) => Allowed
    /\ (out.hook = "post" /\ OtherToolNamed)
         => (files = out.before /\ out.result = Exit(0, <<>>))

OtherToolsPassUntouchedWitness ==
    /\ GateRan
    /\ LastTool = ToolBash
    /\ LastParam("gate_verdict") = VerdictFailMissingTests
    /\ UserResponseMissing
    /\ PendingAtGate # <<>>
    /\ Allowed

\* C8: with the session file unreadable or corrupt, the gate ends as it ends
\* when the session has no file.
StorageFaultIsNoRecord ==
    (/\ GateRan
     /\ LastTool = ToolPromptEngine
     /\ out.before[LastSession] \in CorruptContents)
    => out.result = gate_enforce(out.stdin, [out.before EXCEPT ![LastSession] = NoFile])

\* C9: the gate never raises and ends with exit status 0, whatever its input.
GateNeverRaises ==
    out.hook = "gate" => (out.result.exit = 0 /\ out.result.raised = "")

---------------------------------------------------------------------------
(* The post-invocation hook and the store                                  *)

\* interpret(response) for the last response the post hook was given.
Interpreted ==
    ParsedState(out.stdin.v.v.tool_response)

\* gate_criteria of a session file holding a state object.
CriteriaOf(f) ==
    f.doc.members.gate_criteria.items

\* C10: after the post hook has processed a prompt_engine response with an
\* actionable signal for session S, load(S) returns exactly interpret(response):
\* nothing of the record stored before survives.
WholeRecordReplace ==
    (/\ PostRan
     /\ LastTool = ToolPromptEngine
     /\ Interpreted # PyNone)
    => load_session_state(files, LastSession) = Returned(Interpreted)

WholeRecordReplaceWitness ==
    /\ PostRan
    /\ LastTool = ToolPromptEngine
    /\ out.stdin.v.v.tool_response = PyStr(RespStep2of5)
    /\ PendingGateOf(out.before[LastSession]) # <<>>
    /\ CriteriaOf(out.before[LastSession]) # <<>>
    /\ PendingGateOf(files[LastSession]) = <<>>
    /\ CriteriaOf(files[LastSession]) = <<>>
    /\ files[LastSession].doc.members.current_step = JNumber(2)

\* C11: when a prompt_engine response carries no step or gate marker, the
\* parser returns None and the post hook leaves the directory as it was and
\* prints nothing: the session's record is neither overwritten nor cleared.
NoSignalLeavesRecord ==
    (/\ PostRan
     /\ LastTool = ToolPromptEngine
     /\ Interpreted = PyNone)
    => (files = out.before /\ out.result = Exit(0, <<>>))

NoSignalLeavesRecordWitness ==
    /\ PostRan
    /\ LastTool = ToolPromptEngine
    /\ out.stdin.v.v.tool_response = PyStr(RespPlain)
    /\ Interpreted = PyNone
    /\ PendingGateOf(out.before[LastSession]) = SecurityReview
    /\ PendingGateOf(files[LastSession]) = SecurityReview

---------------------------------------------------------------------------
(* The store with overlapping processes                                    *)

\* The file the last step's session id names.
LastPath ==
    PathName(LastSession)

\* The state the save under way on a file is writing.
StateBeingSaved(state_path) ==
    ParsedState(saving[state_path].stdin.v.v.tool_response)

\* C12: a load that overlaps a save of the same session returns the complete
\* record stored before the save (None if there was none) or the complete new
\* record, never anything else.
LoadSeesOldOrNewRecord ==
    (/\ out.hook = "load"
     /\ saving[LastPath].busy
     /\ ~saving[LastPath].unlinked)
    => out.result \in
         { load_session_state([files EXCEPT ![LastPath] = saving[LastPath].prev],
                              LastSession),
           load_session_state(DumpAndClose(files, LastPath, StateBeingSaved(LastPath)),
                              LastSession) }

\* C13: a step of a process of session A leaves what load returns for every
\* other session id B as it was, and the gate's decision for A is the one it
\* takes with B's record removed.
OtherSessionsUntouched ==
    out.hook \in {"open", "post", "load", "clear", "gate"}
    => \A B \in ConcSessionIds \ {LastSession} :
          /\ load_session_state(files, B) = load_session_state(out.before, B)
          /\ out.hook = "gate"
               => out.result = gate_enforce(out.stdin, clear_session_state(out.before, B))

\* C16: right after clear(S), load(S) returns None, whatever the file held; and
\* a clear of a session without a file changes nothing.
ClearThenLoadIsNone ==
    out.hook = "clear"
    => /\ load_session_state(files, LastSession) = Returned(PyNone)
       /\ out.before[LastPath] = NoFile => files = out.before

ClearThenLoadIsNoneWitness ==
    /\ out.hook = "clear"
    /\ LastSession = <<"s","1">>
    /\ PendingGateOf(out.before[LastPath]) = SecurityReview
    /\ files[LastPath] = NoFile
    /\ load_session_state(files, LastSession) = Returned(PyNone)

---------------------------------------------------------------------------
(* The store under faults                                                  *)

\* C14: load of a session whose file is missing, cannot be opened or holds no
\* JSON text returns None and raises nothing.
LoadOfDamagedRecordIsNone ==
    \A s \in Sessions :
        files[s].k \in {"absent", "noaccess", "garbage", "badutf8"}
        => load_session_state(files, s) = Returned(PyNone)

\* The post hook had a state to save and the storage refused the write.
SaveRefused ==
    /\ PostRan
    /\ LastTool = ToolPromptEngine
    /\ Interpreted # PyNone
    /\ \/ out.before[SESSION_STATE_DIR] = NoDirNode
       \/ out.before[LastSession] = NoAccessFile

\* C15: when the write of save fails, the post hook still exits with status 0
\* and raises nothing, and a later load sees the record stored before, or None.
FailedSaveIsSwallowed ==
    SaveRefused
    => /\ out.result.exit = 0
       /\ out.result.raised = ""
       /\ load_session_state(files, LastSession)
            \in {load_session_state(out.before, LastSession), Returned(PyNone)}

---------------------------------------------------------------------------
(* The life of a record                                                    *)

\* The last response was the final step of a chain: the step it names is the
\* last one and it names no gate.
FinalStepParsed ==
    /\ PostRan
    /\ LastTool = ToolPromptEngine
    /\ Interpreted # PyNone
    /\ Interpreted.v.current_step = Interpreted.v.total_steps
    /\ ~Truthy(Interpreted.v.pending_gate)

\* C17: after the post hook has processed the response of a chain's final
\* step, load for that session returns None.
FinishedChainLeavesNoRecord ==
    FinalStepParsed => load_session_state(files, LastSession) = Returned(PyNone)

\* The gate has just read a pending gate for the session and allowed an
\* invocation that carries a verdict.
VerdictAccepted ==
    /\ GateRan
    /\ LastTool = ToolPromptEngine
    /\ LastParam("gate_verdict") \in PassVerdicts \ FailingVerdicts
    /\ PendingAtGate # <<>>
    /\ Allowed

\* C18: once the gate has read a session's pending gate and allowed an
\* invocation with a verdict, the next chain invocation of that session without
\* a verdict is not denied for that pending gate, no response having been
\* parsed in between.
ConsumedGateNoLongerBlocks ==
    [][ (/\ VerdictAccepted
         /\ out'.hook = "gate"
         /\ out'.stdin \in GateInputs
         /\ out'.stdin.v.v.tool_name = out.stdin.v.v.tool_name
         /\ out'.stdin.v.v.session_id = out.stdin.v.v.session_id
         /\ Get(out'.stdin.v.v.tool_input, "chain_id", EmptyStr) # EmptyStr
         /\ Get(out'.stdin.v.v.tool_input, "gate_verdict", EmptyStr) = EmptyStr)
        => out'.result \in {Exit(0, <<>>), Exit(0, <<Deny(MsgUserResponse)>>)} ]_vars

---------------------------------------------------------------------------
(* The parser                                                              *)

\* current_step and total_steps of what the parser returned, 0 and 0 for None.
StepsReturned ==
    IF out.result.value = PyNone THEN <<0, 0>>
    ELSE <<out.result.value.v.current_step.v, out.result.value.v.total_steps.v>>

\* The leading words with only the first letter in either case.
InitialEitherCase ==
    { <<"S","t","e","p">>, <<"s","t","e","p">>,
      <<"P","r","o","g","r","e","s","s">>, <<"p","r","o","g","r","e","s","s">> }

Step2of5Text ==
    <<"S","t","e","p"," ","2"," ","o","f"," ","5">>

\* C19 as stated: the first marker 'Step|Progress A of|/ B', its leading word
\* in any case, sets current_step = A and total_steps = B (a marker with A = 0
\* left aside), and every text containing 'Step 2 of 5' yields 2 and 5.
AnyCaseMarkerSetsStep ==
    out.hook = "parse"
    => LET m == out.stdin
       IN  /\ m.lead # <<>> => StepsReturned = <<1, 3>>
           /\ (m.lead = <<>> /\ m.step > 0) => StepsReturned = <<m.step, m.total>>
           /\ IsSubstring(Step2of5Text, MarkerText(m)) => StepsReturned = <<2, 5>>

\* C19 as amended: the leading word counts with its first letter in either
\* case and the rest in lower case; the first such marker sets current_step and
\* total_steps and later ones are ignored; a text without such a marker, or
\* whose first marker has A = 0, gives None; 'Step 2 of 5' yields 2 and 5 when
\* it is the first marker and no digit follows it.
FirstMarkerSetsStep ==
    out.hook = "parse"
    => LET m == out.stdin
       IN  /\ m.lead # <<>> => StepsReturned = <<1, 3>>
           /\ (m.lead = <<>> /\ m.word \in InitialEitherCase /\ m.step > 0)
                => StepsReturned = <<m.step, m.total>>
           /\ (m.lead = <<>> /\ (m.word \notin InitialEitherCase \/ m.step = 0))
                => out.result = Returned(PyNone)
           /\ MarkerText(m) = Step2of5Text => StepsReturned = <<2, 5>>

FirstMarkerSetsStepWitness ==
    /\ out.hook = "parse"
    /\ out.stdin.lead # <<>>
    /\ out.stdin.word = <<"S","t","e","p">>
    /\ out.stdin.step = 2
    /\ out.stdin.total = 5
    /\ StepsReturned = <<1, 3>>

\* C20: the record the post hook stores for a response is a function of the
\* response alone, whatever was stored before, and running the hook once more
\* on the same response ends the same way and leaves the same directory.
PostHookIdempotent ==
    (/\ PostRan
     /\ LastTool = ToolPromptEngine)
    => /\ post_prompt_engine(out.stdin, files) = [result |-> out.result, files |-> files]
       /\ Interpreted # PyNone
            => files[LastSession]
                 = post_prompt_engine(out.stdin, EmptyDirectory).files[LastSession]

PostHookIdempotentWitness ==
    /\ PostRan
    /\ LastTool = ToolPromptEngine
    /\ out.stdin.v.v.tool_response = PyStr(RespStepAndGate)
    /\ CriteriaOf(files[LastSession]) # <<>>
    /\ out.before[LastSession] = files[LastSession]

---------------------------------------------------------------------------
(* Reading a run of the post hook on a response written from parts         *)

PartsRan ==
    out.hook = "post" /\ out.stdin \in PartsInputs

\* The parts the last response was written from.
LastParts ==
    CHOOSE t \in ResponseParts : out.stdin.v.v.tool_response.v = PartsText(t)

\* The record of session s1 on disk.
RecordS1 ==
    files[<<"s","1">>].doc.members

\* The first n bullet lines of a response, at most MaxCriteria of them.
FirstBullets(n) ==
    [i \in 1..(IF n < MaxCriteria THEN n ELSE MaxCriteria) |->
        <<"i","t","e","m"," ">> \o Decimal(i)]

\* C21: the gate_criteria of every state the parser returns, and of the record
\* the post hook stores from it, are at most 5 non-empty strings, and they are
\* the first bullet lines of the response in order: 7 bullet lines give the
\* first 5 of them.
CriteriaAreFirstFiveBullets ==
    (PartsRan /\ Truthy(Interpreted) /\ LastParts.header # <<>>)
    => LET c == Interpreted.v.gate_criteria.v
       IN  /\ Len(c) <= MaxCriteria
           /\ \A i \in 1..Len(c) : c[i].v # <<>>
           /\ c = [i \in 1..Len(FirstBullets(LastParts.bullets)) |->
                      PyStr(FirstBullets(LastParts.bullets)[i])]
           /\ CriteriaOf(files[<<"s","1">>])
                = [i \in 1..Len(FirstBullets(LastParts.bullets)) |->
                      JString(FirstBullets(LastParts.bullets)[i])]

\* C22: in every stored record, current_step <= total_steps when both are
\* nonzero.
StoredStepWithinTotal ==
    \A s \in Sessions :
        (/\ files[s].k = "json"
         /\ files[s].doc.members.current_step.n # 0
         /\ files[s].doc.members.total_steps.n # 0)
        => files[s].doc.members.current_step.n <= files[s].doc.members.total_steps.n

\* C23: the parser returns a state exactly when the response has a step marker
\* (current_step > 0) or gate content with a heading (pending_gate non-empty);
\* every stored record has one of the two, and a response with only a chain
\* identifier or only bullet lines leaves the directory as it was.
ActionableRecordsOnly ==
    /\ \A s \in Sessions :
          files[s].k = "json"
          => \/ files[s].doc.members.current_step.n > 0
             \/ PendingGateOf(files[s]) # <<>>
    /\ PartsRan
       => LET signal == \/ LastParts.step # <<>>
                        \/ LastParts.header # <<>> /\ LastParts.heading # <<>>
          IN  /\ Truthy(Interpreted) <=> signal
              /\ signal => (Interpreted.v.current_step.v > 0
                            \/ Truthy(Interpreted.v.pending_gate))
              /\ ~signal => files = out.before

ActionableRecordsOnlyWitness ==
    /\ PartsRan
    /\ LastParts.step = <<>>
    /\ LastParts.chain # <<>>
    /\ LastParts.header # <<>>
    /\ LastParts.heading = <<>>
    /\ LastParts.bullets = 7
    /\ files[<<"s","1">>].k = "json"
    /\ files = out.before

\* C24: pending_gate and gate_criteria are set only under gate content.  With
\* gate content pending_gate is the first heading, trimmed, and None when the
\* response has no heading; without gate content pending_gate is None and
\* gate_criteria is empty whatever headings and bullet lines the response has.
GateFieldsNeedGateContent ==
    (PartsRan /\ Truthy(Interpreted))
    => LET t == LastParts
           name == SubSeq(t.heading, 5, Len(t.heading) - 1)
       IN  /\ t.header = <<>>
              => /\ Interpreted.v.pending_gate = PyNone
                 /\ Interpreted.v.gate_criteria = PyList(<<>>)
                 /\ PendingGateOf(files[<<"s","1">>]) = <<>>
                 /\ CriteriaOf(files[<<"s","1">>]) = <<>>
           /\ (t.header # <<>> /\ t.heading = <<>>)
              => /\ Interpreted.v.pending_gate = PyNone
                 /\ RecordS1.pending_gate = JNull
           /\ (t.header # <<>> /\ t.heading # <<>>)
              => /\ Interpreted.v.pending_gate = PyStr(name)
                 /\ PendingGateOf(files[<<"s","1">>]) = name

GateFieldsNeedGateContentWitness ==
    /\ PartsRan
    /\ Truthy(Interpreted)
    /\ LastParts.header = <<>>
    /\ LastParts.heading # <<>>
    /\ LastParts.bullets = 7
    /\ RecordS1.pending_gate = JNull
    /\ CriteriaOf(files[<<"s","1">>]) = <<>>

\* C25: after the post hook has stored a parsed state it prints one PostToolUse
\* reminder whose additionalContext has the "[Gate] <pending_gate>" line exactly
\* when pending_gate is non-empty and the "[Chain] Step s/t - call
\* prompt_engine to continue" line exactly when 0 < current_step < total_steps;
\* when neither holds the state is stored and nothing is printed.
ReminderFollowsStoredState ==
    (PartsRan /\ Truthy(Interpreted))
    => LET s     == RecordS1.current_step.n
           t     == RecordS1.total_steps.n
           gate  == PendingGateOf(files[<<"s","1">>]) # <<>>
           chain == 0 < s /\ s < t
           printed == out.result.stdout
       IN  /\ load_session_state(files, <<"s","1">>) = Returned(Interpreted)
           /\ out.result.exit = 0
           /\ out.result.raised = ""
           /\ IF gate \/ chain
              THEN /\ Len(printed) = 1
                   /\ printed[1].hookEventName = "PostToolUse"
                   /\ gate <=> IsSubstring(<<"[","G","a","t","e","]">>,
                                           printed[1].additionalContext)
                   /\ gate => IsSubstring(
                                <<"[","G","a","t","e","]"," ">>
                                  \o PendingGateOf(files[<<"s","1">>]),
                                printed[1].additionalContext)
                   /\ chain <=> IsSubstring(<<"[","C","h","a","i","n","]">>,
                                            printed[1].additionalContext)
                   /\ chain => IsSubstring(
                                 <<"[","C","h","a","i","n","]"," ","S","t","e","p"," ">>
                                   \o Decimal(s) \o <<"/">> \o Decimal(t)
                                   \o <<" ","-"," ","c","a","l","l"," ","p","r","o","m","p","t",
                                        "_","e","n","g","i","n","e"," ","t","o"," ","c","o","n",
                                        "t","i","n","u","e">>,
                                 printed[1].additionalContext)
              ELSE printed = <<>>

\* A stored state with current_step past total_steps and no gate: nothing is
\* printed.
ReminderFollowsStoredStateWitness ==
    /\ PartsRan
    /\ Truthy(Interpreted)
    /\ RecordS1.current_step.n = 7
    /\ RecordS1.total_steps.n = 5
    /\ PendingGateOf(files[<<"s","1">>]) = <<>>
    /\ out.before[<<"s","1">>] # files[<<"s","1">>]
    /\ out.result = Exit(0, <<>>)

\* C27: in every stored record, last_prompt_id is the identifier of the prompt
\* executed last in the session (the prompt of the last prompt_engine call).
LastPromptIdIsLastPrompt ==
    (PartsRan /\ files[<<"s","1">>].k = "json")
    => RecordS1.last_prompt_id
         = JString(SubSeq(out.stdin.v.v.tool_input.v.command.v, 3,
                          Len(out.stdin.v.v.tool_input.v.command.v)))

---------------------------------------------------------------------------
(* Across steps                                                            *)

\* The step taken is the post hook parsing a prompt_engine response with an
\* actionable signal for session s.
ActionableResponseFor(s) ==
    /\ out'.hook = "post"
    /\ out'.stdin \in PostInputs
    /\ out'.stdin.v.v.session_id = PyStr(s)
    /\ out'.stdin.v.v.tool_name = PyStr(ToolPromptEngine)
    /\ Truthy(ParsedState(out'.stdin.v.v.tool_response))

\* The step taken is the gate on a prompt_engine invocation of session s with
\* a chain_id and without a gate_verdict.
VerdictlessChainCallOf(s) ==
    /\ out'.hook = "gate"
    /\ out'.stdin \in GateInputs
    /\ out'.stdin.v.v.session_id = PyStr(s)
    /\ out'.stdin.v.v.tool_name = PyStr(ToolPromptEngine)
    /\ Get(out'.stdin.v.v.tool_input, "chain_id", EmptyStr) # EmptyStr
    /\ Get(out'.stdin.v.v.tool_input, "gate_verdict", EmptyStr) = EmptyStr

\* C28: a pending gate is sticky.  From a state in which session S has a stored
\* record with a non-empty pending_gate, every step other than the parsing of
\* a response with an actionable signal for S (an enforcement check of any
\* session, a response without signal, a response of another tool or session)
\* leaves S's record as it is, and if the step is a prompt_engine invocation of
\* S with a chain_id and no gate_verdict, that invocation is denied.
PendingGateIsSticky ==
    [][ \A s \in Sessions :
          (PendingGateOf(files[s]) # <<>> /\ ~ActionableResponseFor(s))
          => /\ files'[s] = files[s]
             /\ VerdictlessChainCallOf(s)
                => /\ out'.result.exit = 0
                   /\ Len(out'.result.stdout) = 1
                   /\ out'.result.stdout[1].permissionDecision = "deny" ]_vars

\* The gate denies a verdict-less chain invocation for the pending gate that
\* was stored before the session's last (signal-free) steps.
PendingGateIsStickyWitness ==
    /\ GateRan
    /\ LastTool = ToolPromptEngine
    /\ LastParam("chain_id") # <<>>
    /\ LastParam("gate_verdict") = <<>>
    /\ LastParam("user_response") = <<>>
    /\ PendingAtGate = SecurityReview
    /\ Denied
    /\ StartsWith(DenyReason, MsgPendingGateHead)

---------------------------------------------------------------------------
(* The chain identifier                                                    *)

\* A parameter of the last invocation as the set it was drawn from: empty when
\* the key is missing.
LastOptional(name) ==
    IF name \in DOMAIN out.stdin.v.v.tool_input.v
    THEN {out.stdin.v.v.tool_input.v[name].v}
    ELSE {}

\* The last invocation with its chain_id replaced by c.
LastCallWithChain(c) ==
    Invocation(LastTool, LastSession, {c},
               LastOptional("gate_verdict"), LastOptional("user_response"))

\* The chain_id of the record the gate read, the empty string without a record.
StoredChainAtGate ==
    IF out.before[LastSession].k = "json"
    THEN out.before[LastSession].doc.members.chain_id.s
    ELSE <<>>

\* C29: the gate's decision depends on the invocation's chain_id only through
\* its presence.  Whatever non-empty chain_id the last invocation carried, the
\* same invocation with any other chain_id ends the same way on the same
\* directory, reason included; and a pending gate blocks a verdict-less
\* prompt_engine invocation of its session whether the record's chain_id is
\* the invocation's or another one.
ChainIdOnlyByPresence ==
    (GateRan /\ LastParam("chain_id") # <<>>)
    => /\ \A c \in ChainIds : gate_enforce(LastCallWithChain(c), out.before) = out.result
       /\ (/\ LastTool = ToolPromptEngine
           /\ PendingAtGate # <<>>
           /\ LastParam("gate_verdict") = <<>>)
          => /\ Denied
             /\ StartsWith(DenyReason, MsgPendingGateHead \o PendingAtGate)

\* A gate recorded for chain c1 blocks an invocation that names chain c2.
ChainIdOnlyByPresenceWitness ==
    /\ GateRan
    /\ LastTool = ToolPromptEngine
    /\ StoredChainAtGate = <<"c","1">>
    /\ LastParam("chain_id") = <<"c","2">>
    /\ LastParam("gate_verdict") = <<>>
    /\ PendingAtGate # <<>>
    /\ Denied
    /\ StartsWith(DenyReason, MsgPendingGateHead \o PendingAtGate)

---------------------------------------------------------------------------
(* The plan-review hook                                                    *)

\* The step taken is a plan-review.py process ending.
PlanReviewEnds ==
    out'.hook = "plan" /\ <<out', plan'>> # <<out, plan>>

\* C26: the plan-review hook blocks ExitPlanMode once per session.  A call is
\* blocked (exit status 2 with the reflection prompt) only while the session
\* has no marker, that is when no earlier call of the session was blocked, so
\* at most one call per session is ever blocked, overlapping processes
\* included; an ExitPlanMode call that is let through finds the marker; a call
\* of another tool is let through and leaves the markers alone.
BlocksOncePerSession ==
    [][ PlanReviewEnds
        => LET tool   == out'.stdin.v.v.tool_name.v
               marker == get_session_marker_path(out'.stdin.v.v.session_id.v)
           IN  /\ out'.result.exit = 2
                  => /\ tool = ToolExitPlanMode
                     /\ out'.result = Blocked
                     /\ marker \notin plan.marker
               /\ (out'.result.exit = 0 /\ tool = ToolExitPlanMode)
                  => marker \in plan.marker
               /\ tool # ToolExitPlanMode
                  => (out'.result = Exit(0, <<>>) /\ plan' = plan) ]_vars

=============================================================================
